---- MODULE Spec2Model ----
(***************************************************************************)
(* Vizier inference pipeline.                                              *)
(*                                                                         *)
(*   SpecPool : the threaded SQS worker        (src/app/worker/main.py)    *)
(*   SpecSeq  : the sequential SQS worker      (src/app/worker/worker.py)  *)
(*   SpecApi  : the Django status / result endpoints and the result        *)
(*              materialization (src/vizier_backend/apps/studies/views.py) *)
(*                                                                         *)
(* The two workers share the job directory (status.txt, input/, output/)   *)
(* and the SQS queue.  Each specification moves only its own part of the   *)
(* state and leaves the rest as Init set it.                               *)
(***************************************************************************)
EXTENDS Integers, Sequences, FiniteSets, TLC

\* ------------------------------------------------------------------ bounds
NumJobs == 1            \* jobs submitted to the queue
MaxReceive == 3         \* deliveries the queue makes, over all messages
NumReqs == 3            \* HTTP requests made for the one study
NumSubs == 2            \* submissions (create requests) made

\* ------------------------------------------------------- program constants
WORKER_CONCURRENCY == 2 \* os.getenv("WORKER_CONCURRENCY", "2")

Jobs == 1..NumJobs
Reqs == 1..NumReqs
Subs == 1..NumSubs

VARIABLES
    \* --- job directory and queue, shared by both workers
    status,             \* status.txt of each job: "none" before submission
    output,             \* output/*.npz exists
    queue,              \* the job's SQS message: absent, visible, inflight, deleted
    rcv,                \* how often the message was received (its latest receipt handle)
    proc,               \* the worker process: up, or exited on a signal
    \* --- main.py
    sem,                \* Semaphore(max_concurrency)
    mpc,                \* where the admission loop stands: acquire, receive
    execs,              \* the live _handle threads, one record each
    \* --- worker.py
    wpc,                \* where worker.py's main stands: loop, receive, process, sleep
    cur,                \* the message process_one_job is working on, or NoMsg
    shutdown_requested, \* worker.py's global flag
    \* --- the Django backend: one Study, its Job, the blob store, the requests
    study,              \* the Study row
    job,                \* the Job row of the study
    blob,               \* the image and mask artifacts in the blob store
    dev,                \* S3Utils.is_dev_mode
    req,                \* the HTTP requests being served, one record each
    \* --- the submissions: StudyViewSet.create
    studies,            \* the Study row each submission created, or NoRow
    jobs,               \* how many Job rows are linked to that Study
    sub,                \* the create requests, one record each
    \* --- one call of a pure function of the backend
    arg,                \* what it is called with
    ret                 \* Value(what it returned), or NoCall before it has

envVars == <<status, output, queue, rcv, proc>>
poolVars == <<sem, mpc, execs>>
seqVars == <<wpc, cur, shutdown_requested>>
createVars == <<studies, jobs, sub>>
callVars == <<arg, ret, createVars>>
apiVars == <<study, job, blob, dev, req, callVars>>
workerVars == <<status, output, queue, rcv, proc, sem, mpc, execs,
                wpc, cur, shutdown_requested, callVars>>
vars == <<status, output, queue, rcv, proc, sem, mpc, execs,
          wpc, cur, shutdown_requested, study, job, blob, dev, req, arg, ret,
          studies, jobs, sub>>

\* A request record: pc is "idle" before the request arrives, then the place
\* reached, and the HTTP code once answered; kind is the endpoint; st is the
\* Study object in hand, loaded by get_object.
NoStudy ==
    [status |-> "none", inference_job_id |-> FALSE, image_s3_key |-> "null",
     mask_s3_key |-> "null", completed_at |-> FALSE]
Idle ==
    [pc |-> "idle", kind |-> "none", st |-> NoStudy]

\* A submission: no Study row yet; the create request not arrived yet.  In a
\* request record pc is the place reached, or the HTTP code once answered;
\* upload_type is the form's field; stored tells that the source NPZ is in the
\* blob store; raised names the step that raised, "none" when none did.
NoRow == [status |-> "none", inference_job_id |-> FALSE, error_message |-> FALSE]
NoSub == [pc |-> "new", upload_type |-> "none", stored |-> FALSE, raised |-> "none"]

\* No call made, nothing returned; a returned value v is kept as Value(v).
NoCall == <<>>
Value(v) == <<v>>

NoMsg == [job |-> 0, rh |-> 0, redo |-> FALSE, exit |-> "none", pc |-> "none"]

\* A received message as the worker holds it, with the place its execution
\* has reached (pc).  job and rh (receipt handle) are the message's fields;
\* redo and exit are history the properties read: whether the job's status
\* was "completed" when the message was received, and how the compute task of
\* this execution ended (none, zero, nonzero, timeout).
Msg(j) ==
    [job |-> j, rh |-> rcv[j] + 1, redo |-> status[j] = "completed",
     exit |-> "none", pc |-> "running"]

\* ----------------------------------------------------------- the producer
\* create_job: make the job directory, save the input, write "pending", enqueue.
create_job(j) ==
    /\ status[j] = "none"
    /\ status' = [status EXCEPT ![j] = "pending"]
    /\ queue' = [queue EXCEPT ![j] = "visible"]
    /\ UNCHANGED <<output, rcv, proc>>

\* ------------------------------------------------------------- the queue
\* The visibility timeout of a received, undeleted message runs out.
Redeliver(j) ==
    /\ queue[j] = "inflight"
    /\ queue' = [queue EXCEPT ![j] = "visible"]
    /\ UNCHANGED <<status, output, rcv, proc>>

\* receive_message returning job j's message: SQS hides it and issues a new
\* receipt handle.
RECURSIVE Deliveries(_)
Deliveries(n) == IF n = 0 THEN 0 ELSE rcv[n] + Deliveries(n - 1)

Receivable(j) == queue[j] = "visible" /\ Deliveries(NumJobs) < MaxReceive

Received(j) ==
    /\ queue' = [queue EXCEPT ![j] = "inflight"]
    /\ rcv' = [rcv EXCEPT ![j] = rcv[j] + 1]

\* delete_message(receipt_handle) that returns: with the latest receipt handle
\* the message is removed; with a stale one SQS accepts the call and the
\* message may or may not be removed.
Deleted(m) ==
    \/ queue' = [queue EXCEPT ![m.job] = "deleted"]
    \/ m.rh # rcv[m.job] /\ queue' = queue

\* write_status / set_status: status.txt is overwritten with the new text.
write_status(j, s) == status' = [status EXCEPT ![j] = s]

\* What the compute task leaves behind when it stops: an exit code and,
\* independently, whether the output directory holds an .npz.
TaskStops(j) == \E o \in BOOLEAN : output' = [output EXCEPT ![j] = output[j] \/ o]

\* =================================================================== main.py
\* One _handle thread e moves to place p (and records how its task ended).
At(e, p) == (execs \ {e}) \cup {[e EXCEPT !.pc = p]}
AtExit(e, p, x) == (execs \ {e}) \cup {[e EXCEPT !.pc = p, !.exit = x]}

Thread(e, p) == proc = "up" /\ e \in execs /\ e.pc = p

\* PoolAcquire with the result of sem.acquire(blocking=False) ignored: the
\* loop goes on to receive whether or not a slot was free.
PoolAcquireUnchecked ==
    /\ proc = "up" /\ mpc = "acquire"
    /\ sem' = IF sem > 0 THEN sem - 1 ELSE sem
    /\ mpc' = "receive"
    /\ UNCHANGED <<execs, envVars, seqVars, apiVars>>

\* main, line 20: sem.acquire(blocking=False); a failed acquire sleeps and
\* retries, which changes nothing.
PoolAcquire ==
    /\ proc = "up" /\ mpc = "acquire"
    /\ sem > 0
    /\ sem' = sem - 1
    /\ mpc' = "receive"
    /\ UNCHANGED <<execs, envVars, seqVars, apiVars>>

\* PoolReceiveNone without the sem.release() of line 26.
PoolReceiveNoneKeeps ==
    /\ proc = "up" /\ mpc = "receive"
    /\ sem' = sem
    /\ mpc' = "acquire"
    /\ UNCHANGED <<execs, envVars, seqVars, apiVars>>

\* main, lines 24-28: receive_message() returned no message.
PoolReceiveNone ==
    /\ proc = "up" /\ mpc = "receive"
    /\ sem' = sem + 1
    /\ mpc' = "acquire"
    /\ UNCHANGED <<execs, envVars, seqVars, apiVars>>

\* main, lines 24-30: receive_message() returned job j's message; a daemon
\* thread running _handle(msg) is started.
PoolReceive(j) ==
    /\ proc = "up" /\ mpc = "receive"
    /\ Receivable(j)
    /\ Received(j)
    /\ execs' = execs \cup {Msg(j)}
    /\ mpc' = "acquire"
    /\ UNCHANGED <<sem, status, output, proc, seqVars, apiVars>>

\* A worker process ends and its supervisor starts a new one, main() from its
\* first line: the threads are gone, the job directories and the queue stay.
PoolFresh ==
    /\ sem' = WORKER_CONCURRENCY
    /\ mpc' = "acquire"
    /\ execs' = {}

\* main, line 24: receive_message() raises; nothing in main catches it, the
\* main thread ends and the daemon threads end with the process.
PoolReceiveRaises ==
    /\ proc = "up" /\ mpc = "receive"
    /\ PoolFresh
    /\ UNCHANGED <<envVars, seqVars, apiVars>>

\* PoolRunning without its write: the execution goes on to launch with the
\* status left as it was.
PoolRunningUnwritten(e) ==
    /\ Thread(e, "running")
    /\ \/ UNCHANGED status /\ execs' = At(e, "launch")
       \/ UNCHANGED status /\ execs' = At(e, "except")
    /\ UNCHANGED <<output, queue, rcv, proc, sem, mpc, seqVars, apiVars>>

\* process_one, line 39: write_status(job_dir, "running").
PoolRunning(e) ==
    /\ Thread(e, "running")
    /\ \/ write_status(e.job, "running") /\ execs' = At(e, "launch")
       \/ UNCHANGED status /\ execs' = At(e, "except")
    /\ UNCHANGED <<output, queue, rcv, proc, sem, mpc, seqVars, apiVars>>

\* process_one, line 41: run_biomedparse_task(job_id) returns a task ARN, or
\* raises (run_task failures).
PoolLaunch(e) ==
    /\ Thread(e, "launch")
    /\ \/ execs' = At(e, "wait")
       \/ execs' = At(e, "except")
    /\ UNCHANGED <<envVars, sem, mpc, seqVars, apiVars>>

\* process_one, line 42: wait_for_task(task_arn).  The tasks_stopped waiter
\* returns once the task is STOPPED, whatever its exit code, and raises when
\* its attempts run out first.
PoolWait(e) ==
    /\ Thread(e, "wait")
    /\ \/ \E x \in {"zero", "nonzero"} :
            /\ TaskStops(e.job)
            /\ execs' = AtExit(e, "validate", x)
       \/ UNCHANGED output /\ execs' = AtExit(e, "except", "timeout")
    /\ UNCHANGED <<status, queue, rcv, proc, sem, mpc, seqVars, apiVars>>

\* process_one, lines 44-45: validate_output(job_dir), any output/*.npz.
PoolValidate(e) ==
    /\ Thread(e, "validate")
    /\ execs' = At(e, IF output[e.job] THEN "complete" ELSE "except")
    /\ UNCHANGED <<envVars, sem, mpc, seqVars, apiVars>>

\* process_one, line 47: write_status(job_dir, "completed").
PoolComplete(e) ==
    /\ Thread(e, "complete")
    /\ \/ write_status(e.job, "completed") /\ execs' = At(e, "delete")
       \/ UNCHANGED status /\ execs' = At(e, "except")
    /\ UNCHANGED <<output, queue, rcv, proc, sem, mpc, seqVars, apiVars>>

\* process_one, line 48: delete_message(receipt).
PoolDelete(e) ==
    /\ Thread(e, "delete")
    /\ \/ Deleted(e) /\ execs' = At(e, "done")
       \/ UNCHANGED queue /\ execs' = At(e, "except")
    /\ UNCHANGED <<status, output, rcv, proc, sem, mpc, seqVars, apiVars>>

\* process_one, lines 52-54: except Exception: write_status(job_dir, "failed").
\* When that write raises too the exception leaves process_one.
PoolExcept(e) ==
    /\ Thread(e, "except")
    /\ \/ write_status(e.job, "failed") /\ execs' = At(e, "handled")
       \/ UNCHANGED status /\ execs' = At(e, "propagated")
    /\ UNCHANGED <<output, queue, rcv, proc, sem, mpc, seqVars, apiVars>>

\* _handle, lines 15-16: finally: sem.release(); the thread ends.
PoolRelease(e) ==
    /\ proc = "up" /\ e \in execs
    /\ e.pc \in {"done", "handled", "propagated"}
    /\ sem' = sem + 1
    /\ execs' = execs \ {e}
    /\ UNCHANGED <<mpc, envVars, seqVars, apiVars>>

\* main.py installs no signal handler: SIGTERM ends the process at once, and
\* the daemon threads with it, wherever they stand.
PoolSigterm ==
    /\ proc = "up"
    /\ proc' = "exited"
    /\ UNCHANGED <<status, output, queue, rcv, poolVars, seqVars, apiVars>>

\* The worker process dies (host failure, out of memory) while threads run.
PoolCrash ==
    /\ proc = "up"
    /\ execs # {}
    /\ PoolFresh
    /\ UNCHANGED <<envVars, seqVars, apiVars>>

Producer ==
    \E j \in Jobs :
        \/ create_job(j) /\ UNCHANGED <<poolVars, seqVars, apiVars>>
        \/ Redeliver(j) /\ UNCHANGED <<poolVars, seqVars, apiVars>>

PoolThread ==
    \E e \in execs :
        \/ PoolRunning(e)
        \/ PoolLaunch(e)
        \/ PoolWait(e)
        \/ PoolValidate(e)
        \/ PoolComplete(e)
        \/ PoolDelete(e)
        \/ PoolExcept(e)
        \/ PoolRelease(e)

PoolNext ==
    \/ Producer
    \/ PoolAcquire
    \/ PoolReceiveNone
    \/ \E j \in Jobs : PoolReceive(j)
    \/ PoolReceiveRaises
    \/ PoolThread
    \/ PoolSigterm
    \/ PoolCrash

WorkerInit ==
    /\ status = [j \in Jobs |-> "none"]
    /\ output = [j \in Jobs |-> FALSE]
    /\ queue = [j \in Jobs |-> "absent"]
    /\ rcv = [j \in Jobs |-> 0]
    /\ proc = "up"
    /\ sem = WORKER_CONCURRENCY
    /\ mpc = "acquire"
    /\ execs = {}
    /\ wpc = "loop"
    /\ cur = NoMsg
    /\ shutdown_requested = FALSE

\* The workers as they start, and the backend with no study submitted.
Start ==
    /\ WorkerInit
    /\ study = NoStudy
    /\ job = [status |-> "none", progress_percent |-> 0,
              started_at |-> FALSE, completed_at |-> FALSE]
    /\ blob = [image |-> "absent", mask |-> "absent"]
    /\ dev = FALSE
    /\ req = [r \in Reqs |-> Idle]
    /\ studies = [s \in Subs |-> NoRow]
    /\ jobs = [s \in Subs |-> 0]
    /\ sub = [s \in Subs |-> NoSub]

\* The workers' specifications leave the backend as Start sets it.
Init ==
    /\ Start
    /\ arg = NoCall /\ ret = NoCall

SpecPool == Init /\ [][PoolNext]_vars

\* ================================================================= worker.py
Job(p) == proc = "up" /\ wpc = "process" /\ cur.pc = p

\* process_one_job returned, or raised into main's except (line 81), which
\* logs and sleeps.
SeqReturn == wpc' = "loop" /\ cur' = NoMsg
SeqRaise == wpc' = "sleep" /\ cur' = NoMsg

\* handle_shutdown, lines 27-30: SIGTERM or SIGINT sets the flag, whatever the
\* main thread is doing.
handle_shutdown ==
    /\ proc = "up"
    /\ ~shutdown_requested
    /\ shutdown_requested' = TRUE
    /\ UNCHANGED <<wpc, cur, envVars, poolVars, apiVars>>

\* main, line 72: while not shutdown_requested; line 86 after the loop.
SeqLoop ==
    /\ proc = "up" /\ wpc = "loop"
    /\ IF shutdown_requested
         THEN proc' = "exited" /\ wpc' = wpc
         ELSE proc' = proc /\ wpc' = "receive"
    /\ UNCHANGED <<cur, shutdown_requested, status, output, queue, rcv, poolVars, apiVars>>

\* main, lines 74-77: receive_message() returned job j's message.
SeqReceive(j) ==
    /\ proc = "up" /\ wpc = "receive"
    /\ Receivable(j)
    /\ Received(j)
    /\ cur' = Msg(j)
    /\ wpc' = "process"
    /\ UNCHANGED <<shutdown_requested, status, output, proc, poolVars, apiVars>>

\* main, lines 74-84: receive_message() returned None, or raised into the
\* except of line 81; both sleep POLL_INTERVAL.
SeqReceiveNone ==
    /\ proc = "up" /\ wpc = "receive"
    /\ wpc' = "sleep"
    /\ UNCHANGED <<cur, shutdown_requested, envVars, poolVars, apiVars>>

\* main, lines 79 and 84: time.sleep(POLL_INTERVAL) is over.
SeqSleep ==
    /\ proc = "up" /\ wpc = "sleep"
    /\ wpc' = "loop"
    /\ UNCHANGED <<cur, shutdown_requested, envVars, poolVars, apiVars>>

\* process_one_job, line 48: set_status(job_dir, "running").
SeqRunning ==
    /\ Job("running")
    /\ \/ write_status(cur.job, "running") /\ cur' = [cur EXCEPT !.pc = "validate_input"]
       \/ UNCHANGED status /\ cur' = [cur EXCEPT !.pc = "except"]
    /\ UNCHANGED <<wpc, shutdown_requested, output, queue, rcv, proc, poolVars, apiVars>>

\* process_one_job, line 49: validate_input(job_dir) finds input/input.npz
\* or raises FileNotFoundError.
SeqValidateInput ==
    /\ Job("validate_input")
    /\ \/ cur' = [cur EXCEPT !.pc = "launch"]
       \/ cur' = [cur EXCEPT !.pc = "except"]
    /\ UNCHANGED <<wpc, shutdown_requested, envVars, poolVars, apiVars>>

\* run_biomedparse_task, lines 73-79 of ecs_runner.py: ecs.run_task starts
\* the task, or reports failures and RuntimeError is raised.
SeqLaunch ==
    /\ Job("launch")
    /\ \/ cur' = [cur EXCEPT !.pc = "wait"]
       \/ cur' = [cur EXCEPT !.pc = "except"]
    /\ UNCHANGED <<wpc, shutdown_requested, envVars, poolVars, apiVars>>

\* run_biomedparse_task, lines 82-97 of ecs_runner.py: poll describe_tasks
\* until STOPPED; a non-zero exit code raises RuntimeError, timeout_sec
\* passing first raises TimeoutError.
SeqWait ==
    /\ Job("wait")
    /\ \/ /\ TaskStops(cur.job)
          /\ \/ cur' = [cur EXCEPT !.pc = "validate_output", !.exit = "zero"]
             \/ cur' = [cur EXCEPT !.pc = "except", !.exit = "nonzero"]
       \/ UNCHANGED output /\ cur' = [cur EXCEPT !.pc = "except", !.exit = "timeout"]
    /\ UNCHANGED <<wpc, shutdown_requested, status, queue, rcv, proc, poolVars, apiVars>>

\* process_one_job, line 53: validate_output(job_dir) finds the output NPZ or
\* raises FileNotFoundError.
SeqValidateOutput ==
    /\ Job("validate_output")
    /\ cur' = [cur EXCEPT !.pc = IF output[cur.job] THEN "complete" ELSE "except"]
    /\ UNCHANGED <<wpc, shutdown_requested, envVars, poolVars, apiVars>>

\* process_one_job, line 54: set_status(job_dir, "completed").
SeqComplete ==
    /\ Job("complete")
    /\ \/ write_status(cur.job, "completed") /\ cur' = [cur EXCEPT !.pc = "delete"]
       \/ UNCHANGED status /\ cur' = [cur EXCEPT !.pc = "except"]
    /\ UNCHANGED <<wpc, shutdown_requested, output, queue, rcv, proc, poolVars, apiVars>>

\* process_one_job, lines 56-57: delete_message(receipt), then return.
SeqDelete ==
    /\ Job("delete")
    /\ \/ Deleted(cur) /\ SeqReturn
       \/ UNCHANGED <<queue, wpc>> /\ cur' = [cur EXCEPT !.pc = "except"]
    /\ UNCHANGED <<shutdown_requested, status, output, rcv, proc, poolVars, apiVars>>

\* process_one_job, lines 59-63: except Exception: set_status(job_dir,
\* "failed"); the message is not deleted.  When that write raises too, the
\* exception reaches main's except.
SeqExcept ==
    /\ Job("except")
    /\ \/ write_status(cur.job, "failed") /\ SeqReturn
       \/ UNCHANGED status /\ SeqRaise
    /\ UNCHANGED <<shutdown_requested, output, queue, rcv, proc, poolVars, apiVars>>

\* The worker process dies in the middle of a job and its supervisor starts
\* a new one.
SeqCrash ==
    /\ proc = "up" /\ wpc = "process"
    /\ wpc' = "loop"
    /\ cur' = NoMsg
    /\ shutdown_requested' = FALSE
    /\ UNCHANGED <<envVars, poolVars, apiVars>>

SeqJob ==
    \/ SeqRunning
    \/ SeqValidateInput
    \/ SeqLaunch
    \/ SeqWait
    \/ SeqValidateOutput
    \/ SeqComplete
    \/ SeqDelete
    \/ SeqExcept

SeqNext ==
    \/ Producer
    \/ handle_shutdown
    \/ SeqLoop
    \/ \E j \in Jobs : SeqReceive(j)
    \/ SeqReceiveNone
    \/ SeqSleep
    \/ SeqJob
    \/ SeqCrash

SpecSeq == Init /\ [][SeqNext]_vars

\* ======================================================= studies/views.py
\* ---- strings, as sequences of characters
UpperCase == <<"A", "B", "C", "D", "E", "F", "G", "H", "I", "J", "K", "L", "M",
               "N", "O", "P", "Q", "R", "S", "T", "U", "V", "W", "X", "Y", "Z">>
LowerCase == <<"a", "b", "c", "d", "e", "f", "g", "h", "i", "j", "k", "l", "m",
               "n", "o", "p", "q", "r", "s", "t", "u", "v", "w", "x", "y", "z">>
Whitespace == {" ", "\t", "\n"}

Index(c, alphabet) == CHOOSE i \in DOMAIN alphabet : alphabet[i] = c
In(c, alphabet) == \E i \in DOMAIN alphabet : alphabet[i] = c

\* str.lower, str.upper, str.strip
lower(cs) ==
    [i \in DOMAIN cs |->
        IF In(cs[i], UpperCase) THEN LowerCase[Index(cs[i], UpperCase)] ELSE cs[i]]
upper(cs) ==
    [i \in DOMAIN cs |->
        IF In(cs[i], LowerCase) THEN UpperCase[Index(cs[i], LowerCase)] ELSE cs[i]]

RECURSIVE lstrip(_)
lstrip(cs) ==
    IF cs # <<>> /\ Head(cs) \in Whitespace THEN lstrip(Tail(cs)) ELSE cs
RECURSIVE rstrip(_)
rstrip(cs) ==
    IF cs # <<>> /\ cs[Len(cs)] \in Whitespace
        THEN rstrip(SubSeq(cs, 1, Len(cs) - 1)) ELSE cs
\* str.strip that strips nothing.
unstripped(cs) == cs
strip(cs) == rstrip(lstrip(cs))

\* The characters of a sequence as one string.
RECURSIVE Text(_)
Text(cs) == IF cs = <<>> THEN "" ELSE Head(cs) \o Text(Tail(cs))

\* What the inference API may answer as job_status.get('status'): one of
\* these strings, or None.
RawStatuses ==
    { <<"p", "e", "n", "d", "i", "n", "g">>,
      <<"q", "u", "e", "u", "e", "d">>,
      <<"r", "u", "n", "n", "i", "n", "g">>,
      <<"p", "r", "o", "c", "e", "s", "s", "i", "n", "g">>,
      <<"c", "o", "m", "p", "l", "e", "t", "e", "d">>,
      <<"f", "a", "i", "l", "e", "d">>,
      <<" ", "C", "o", "m", "p", "l", "e", "t", "e", "d", "\n">>,
      <<"F", "A", "I", "L", "E", "D">>,
      <<"d", "o", "n", "e", " ">>,
      <<" ">>,
      <<>> }

\* status, lines 277-284: status_map
status_map ==
    [pending |-> "SUBMITTED", running |-> "PROCESSING", completed |-> "COMPLETED",
     failed |-> "FAILED", queued |-> "QUEUED", processing |-> "PROCESSING"]

\* status, lines 275-288: raw_status, normalized_status, mapped_status.  value
\* is job_status.get('status'): a string, or NoneValue.
NoneValue == <<"None">>
mapped_status(value) ==
    LET raw_status == IF value = NoneValue THEN <<>> ELSE strip(value)
        normalized_status == Text(lower(raw_status))
    IN  IF normalized_status \in DOMAIN status_map
            THEN status_map[normalized_status]
            ELSE IF raw_status # <<>> THEN Text(upper(raw_status)) ELSE "UNKNOWN"

\* The values mapped_status takes over the answers of the inference API.
MappedStatuses == {mapped_status(value) : value \in RawStatuses \cup {NoneValue}}

\* Job.update_status, models.py lines 234-243; progress 0 - 1 stands for None.
update_status(j, new_status, progress) ==
    [status |-> new_status,
     progress_percent |-> IF progress # 0 - 1 THEN progress ELSE j.progress_percent,
     started_at |-> j.started_at \/ new_status = "PROCESSING",
     completed_at |-> j.completed_at \/ new_status = "COMPLETED"]

\* ---- the requests
ProgressValues == {0 - 1, 50}

Step(r, p) == req' = [req EXCEPT ![r].pc = p]

\* The response is sent: the request is over.
Respond(r, code) ==
    req' = [req EXCEPT ![r] = [Idle EXCEPT !.pc = code]]

\* status, line 255: study = self.get_object(); line 271: if
\* study.inference_job_id, else the study is returned as it is, 200.
StatusBegin(r) ==
    /\ req[r].pc = "idle"
    /\ req' = [req EXCEPT ![r] =
                IF study.inference_job_id
                    THEN [pc |-> "get_status", kind |-> "status", st |-> study]
                    ELSE [Idle EXCEPT !.pc = "200"]]
    /\ UNCHANGED <<study, job, blob, dev, workerVars>>

\* status, lines 298-313: the study in hand, loaded at line 255, is compared
\* with mapped_status and saved; study.save() writes every field of it.
\* _create_result_file is entered on the first branch only; on the others the
\* serialized study in hand is returned, 200.
UpdateStudy(r, mapped) ==
    LET q == req[r] IN
    IF mapped = "COMPLETED" /\ q.st.status # "COMPLETED"
    THEN LET s == [q.st EXCEPT !.status = "COMPLETED", !.completed_at = TRUE]
         IN  /\ study' = s
             /\ req' = [req EXCEPT ![r].st = s, ![r].pc = "m_check"]
    ELSE IF mapped = "FAILED" /\ q.st.status # "FAILED"
    THEN /\ study' = [q.st EXCEPT !.status = "FAILED", !.completed_at = TRUE]
         /\ Respond(r, "200")
    ELSE /\ study' = study
         /\ Respond(r, "200")

\* GetStatus that records a failed query on the Job.
GetStatusFailureRecorded(r) ==
    /\ req[r].pc = "get_status"
    /\ \/ \E mapped \in MappedStatuses, progress \in ProgressValues :
            /\ job' = update_status(job, mapped, progress)
            /\ UpdateStudy(r, mapped)
       \/ /\ Respond(r, "500")
          /\ job' = update_status(job, "FAILED", 0 - 1)
          /\ study' = study
    /\ UNCHANGED <<blob, dev, workerVars>>

\* status, lines 272-313: inference_client.get_status(...) answers, the status
\* is mapped, the Job and then the Study are updated; or get_status raises
\* into the except of line 315: 500.
GetStatus(r) ==
    /\ req[r].pc = "get_status"
    /\ \/ \E mapped \in MappedStatuses, progress \in ProgressValues :
            /\ job' = update_status(job, mapped, progress)
            /\ UpdateStudy(r, mapped)
       \/ Respond(r, "500") /\ UNCHANGED <<study, job>>
    /\ UNCHANGED <<blob, dev, workerVars>>

\* ---- _create_result_file
\* S3Utils.object_exists for both artifacts.
BothExist == blob.image # "absent" /\ blob.mask # "absent"

\* _create_result_file returns to its caller: status() goes on to its
\* response (lines 310-313: the serialized study in hand, 200), result() to
\* its second existence check.
Return(r) ==
    IF req[r].kind = "status" THEN Respond(r, "200") ELSE Step(r, "r_recheck")

\* _create_result_file without its existence check: it always regenerates.
MCheckRegenerates(r) ==
    /\ req[r].pc = "m_check"
    /\ Step(r, IF BothExist THEN "m_delete" ELSE "m_upload_image")
    /\ UNCHANGED <<study, job, blob, dev, workerVars>>

\* _create_result_file, lines 520-549: the existence check and, in dev mode,
\* the nibabel check that both artifacts load and are 3D.  In production
\* object_exists raises on an S3 error other than 404, into the except of
\* line 644, which logs and returns.
MCheck(r) ==
    /\ req[r].pc = "m_check"
    /\ \/ IF BothExist
             THEN IF dev /\ (blob.image # "3d" \/ blob.mask # "3d")
                     THEN Step(r, "m_delete")
                     ELSE Step(r, "m_exists")
             ELSE Step(r, "m_upload_image")
       \/ ~dev /\ Return(r)
    /\ UNCHANGED <<study, job, blob, dev, workerVars>>

\* _create_result_file, lines 549-555: the artifacts are there; the study is
\* pointed at them (save with update_fields) when it is not yet.  A save that
\* raises goes into the except of line 644.
MExists(r) ==
    /\ req[r].pc = "m_exists"
    /\ LET q == req[r] IN
        IF q.st.image_s3_key # "default" \/ q.st.mask_s3_key # "default"
        THEN \/ study' = [study EXCEPT !.image_s3_key = "default",
                                       !.mask_s3_key = "default"]
             \/ study' = study
        ELSE study' = study
    /\ Return(r)
    /\ UNCHANGED <<job, blob, dev, workerVars>>

\* _create_result_file, lines 557-559: delete both artifacts (dev mode only).
MDelete(r) ==
    /\ req[r].pc = "m_delete"
    /\ blob' = [image |-> "absent", mask |-> "absent"]
    /\ Step(r, "m_upload_image")
    /\ UNCHANGED <<study, job, dev, workerVars>>

\* MUploadImage whose failure is ignored: the mask upload and the update of
\* the keys follow all the same.
MUploadImageUnchecked(r) ==
    /\ req[r].pc = "m_upload_image"
    /\ \/ blob' = [blob EXCEPT !.image = "3d"] /\ Step(r, "m_upload_mask")
       \/ blob' = blob /\ Step(r, "m_upload_mask")
    /\ UNCHANGED <<study, job, dev, workerVars>>

\* _create_result_file, lines 561-619: download the source NPZ and the mask
\* from the inference API, convert both to NIfTI in the temp directory, upload
\* the image NIfTI.  Any of these may fail, into the except of line 644.
MUploadImage(r) ==
    /\ req[r].pc = "m_upload_image"
    /\ \/ blob' = [blob EXCEPT !.image = "3d"] /\ Step(r, "m_upload_mask")
       \/ blob' = blob /\ Return(r)
    /\ UNCHANGED <<study, job, dev, workerVars>>

\* MUploadMask whose failure is not swallowed: the exception reaches the
\* caller's except and is answered 500.
MUploadMaskRaises(r) ==
    /\ req[r].pc = "m_upload_mask"
    /\ \/ blob' = [blob EXCEPT !.mask = "3d"] /\ Step(r, "m_save")
       \/ blob' = blob /\ Respond(r, "500")
    /\ UNCHANGED <<study, job, dev, workerVars>>

\* _create_result_file, lines 620-621: upload the mask NIfTI.  A failed upload
\* raises into the except of line 644, which logs and returns.
MUploadMask(r) ==
    /\ req[r].pc = "m_upload_mask"
    /\ \/ blob' = [blob EXCEPT !.mask = "3d"] /\ Step(r, "m_save")
       \/ blob' = blob /\ Return(r)
    /\ UNCHANGED <<study, job, dev, workerVars>>

\* _create_result_file, lines 626-628: the study's keys are set and saved with
\* update_fields.  A save that raises goes into the except of line 644.
MSave(r) ==
    /\ req[r].pc = "m_save"
    /\ \/ study' = [study EXCEPT !.image_s3_key = "default",
                                 !.mask_s3_key = "default"]
       \/ study' = study
    /\ Return(r)
    /\ UNCHANGED <<job, blob, dev, workerVars>>

\* ---- result
\* result, lines 433-453: load the study; 400 unless it is COMPLETED.
ResultBegin(r) ==
    /\ req[r].pc = "idle"
    /\ req' = [req EXCEPT ![r] =
                IF study.status = "COMPLETED"
                    THEN [pc |-> "r_check", kind |-> "result", st |-> study]
                    ELSE [Idle EXCEPT !.pc = "400"]]
    /\ UNCHANGED <<study, job, blob, dev, workerVars>>

\* result, lines 463-465: generate the artifacts when one is missing; an S3
\* error in object_exists is answered 500 (production only).
ResultCheck(r) ==
    /\ req[r].pc = "r_check"
    /\ \/ Step(r, IF BothExist THEN "r_recheck" ELSE "m_check")
       \/ ~dev /\ Respond(r, "500")
    /\ UNCHANGED <<study, job, blob, dev, workerVars>>

\* ResultRespond without the existence check of line 467: the URLs are signed
\* whatever _create_result_file achieved.
ResultRespondUnchecked(r) ==
    /\ req[r].pc = "r_recheck"
    /\ Step(r, "r_sign")
    /\ UNCHANGED <<study, job, blob, dev, workerVars>>

\* result, lines 467-472: 404 when an artifact is still missing; an S3 error
\* in object_exists is answered 500 (production only).
ResultRespond(r) ==
    /\ req[r].pc = "r_recheck"
    /\ \/ IF BothExist THEN Step(r, "r_sign") ELSE Respond(r, "404")
       \/ ~dev /\ Respond(r, "500")
    /\ UNCHANGED <<study, job, blob, dev, workerVars>>

\* result, lines 474-496: generate_presigned_url for both artifacts, which in
\* dev mode raises when the local file is not there (s3_utils.py 147-149) and
\* in production may raise on an S3 error; then the legend, whose failure is
\* only logged, and the response with the URLs, 200.
ResultSign(r) ==
    /\ req[r].pc = "r_sign"
    /\ \/ (dev => BothExist) /\ Respond(r, "200")
       \/ (dev => ~BothExist) /\ Respond(r, "500")
    /\ UNCHANGED <<study, job, blob, dev, workerVars>>

Materialize(r) ==
    \/ MCheck(r)
    \/ MExists(r)
    \/ MDelete(r)
    \/ MUploadImage(r)
    \/ MUploadMask(r)
    \/ MSave(r)

ApiNext ==
    \/ \E r \in Reqs : StatusBegin(r)
    \/ \E r \in Reqs : GetStatus(r)
    \/ \E r \in Reqs : Materialize(r)
    \/ \E r \in Reqs : ResultBegin(r)
    \/ \E r \in Reqs : ResultCheck(r)
    \/ \E r \in Reqs : ResultRespond(r)
    \/ \E r \in Reqs : ResultSign(r)

\* A study as create() leaves it after a successful submission: PROCESSING,
\* with its Job SUBMITTED and no artifacts yet.
ApiFresh ==
    /\ study = [status |-> "PROCESSING", inference_job_id |-> TRUE,
                image_s3_key |-> "null", mask_s3_key |-> "null",
                completed_at |-> FALSE]
    /\ job = [status |-> "SUBMITTED", progress_percent |-> 0,
              started_at |-> FALSE, completed_at |-> FALSE]
    /\ blob = [image |-> "absent", mask |-> "absent"]

\* A study completed under an earlier version, in the local development
\* store: its artifacts are legacy 4D volumes, or the mask is unreadable, and
\* its keys may not have been recorded.
ApiLegacy ==
    /\ \E k \in {"null", "default"} :
          study = [status |-> "COMPLETED", inference_job_id |-> TRUE,
                   image_s3_key |-> k, mask_s3_key |-> k, completed_at |-> TRUE]
    /\ job = [status |-> "COMPLETED", progress_percent |-> 0,
              started_at |-> TRUE, completed_at |-> TRUE]
    /\ blob \in {[image |-> "4d", mask |-> "4d"], [image |-> "3d", mask |-> "bad"]}

InitApi ==
    /\ WorkerInit
    /\ \/ ApiFresh /\ dev \in BOOLEAN
       \/ ApiLegacy /\ dev = TRUE
    /\ req = [r \in Reqs |-> Idle]
    /\ arg = NoCall /\ ret = NoCall
    /\ studies = [s \in Subs |-> NoRow]
    /\ jobs = [s \in Subs |-> 0]
    /\ sub = [s \in Subs |-> NoSub]

SpecApi == InitApi /\ [][ApiNext]_vars

\* ======================================================= worker properties
Terminal == {"completed", "failed"}

\* The execution has launched a compute task.
Launched(m) == m.pc \in {"wait", "validate", "validate_output"}

\* The execution has written "completed".
WroteCompleted(m) == m.pc \in {"delete", "done"}

\* The execution's compute task ended with a non-zero exit code or did not
\* stop within the timeout.
BadExit(m) == m.exit \in {"nonzero", "timeout"}

\* A step of the execution has failed.
Failed(m) == BadExit(m) \/ m.pc \in {"except", "handled", "propagated"}

\* The execution has not yet attempted its terminal status write.
MidFlight(m) ==
    m.pc \in {"running", "validate_input", "launch", "wait", "validate",
              "validate_output", "complete", "except"}

\* C2: an execution started by a message that was delivered when the job's
\* status was already "completed" never launches a compute task.
C2_NoRelaunchOfCompleted ==
    /\ ~(cur.redo /\ Launched(cur))
    /\ \A e \in execs : ~(e.redo /\ Launched(e))

\* C5: the _handle threads alive, each holding one slot from its start to
\* its sem.release(), are never more than WORKER_CONCURRENCY.
C5_InFlightAtMostN == Cardinality(execs) <= WORKER_CONCURRENCY

\* C5 witness: the worker is at capacity while another message waits.
C5_AtCapacity ==
    /\ proc = "up"
    /\ Cardinality(execs) = WORKER_CONCURRENCY
    /\ \E j \in Jobs : Receivable(j)

\* C6: a message is deleted only once "completed" is persisted: whenever the
\* job's status is not "completed", its message has not been deleted.
C6_AckOnlyAfterCompleted ==
    \A j \in Jobs : queue[j] = "deleted" => status[j] = "completed"

\* C7: an execution in which a step failed goes on to persist "failed": it
\* neither marks the job completed, nor deletes the message, nor lets the
\* error leave process_one.
C7_FailurePersistsFailed ==
    \A e \in execs :
        Failed(e) => e.pc \notin {"complete", "delete", "done", "propagated"}

\* C9: an execution whose compute task ended with a non-zero exit code, or
\* timed out, never writes "completed", in either worker.
C9_BadExitNeverCompleted ==
    /\ BadExit(cur) => ~WroteCompleted(cur)
    /\ \A e \in execs : BadExit(e) => ~WroteCompleted(e)

\* C10: after a termination signal no message is received any more, and when
\* the worker has exited no execution was left before its terminal status
\* write.
C10_GracefulShutdown ==
    [][/\ shutdown_requested => rcv' = rcv
       /\ proc' = "exited" => (~MidFlight(cur') /\ \A e \in execs' : ~MidFlight(e))]_vars

\* ========================================================== API properties
\* The persisted statuses that end a Job or a Study.
TerminalStatuses == {"COMPLETED", "FAILED"}

\* The artifacts are there and, where that is checked, 3-dimensional.
ArtifactsUsable == BothExist /\ (dev => (blob.image = "3d" /\ blob.mask = "3d"))

\* The places _create_result_file returns to.
Returned == {"200", "r_recheck"}

\* C1: a status inquiry that loaded a COMPLETED study never makes the
\* get_status call.
C1_CompletedSkipsQuery ==
    \A r \in Reqs :
        (req[r].kind = "status" /\ req[r].st.status = "COMPLETED")
            => req[r].pc # "get_status"

\* C3: a terminal status is never changed: neither the worker's status marker
\* of a job, nor the Job's status, nor the Study's status.
C3_TerminalAbsorbing ==
    [][/\ \A j \in Jobs : status[j] \in Terminal => status'[j] = status[j]
       /\ job.status \in TerminalStatuses => job'.status = job.status
       /\ study.status \in TerminalStatuses => study'.status = study.status]_vars

\* C4: a status inquiry enters _create_result_file only when the persisted
\* Study is not COMPLETED yet, so that of several inquiries that learn of the
\* completion one alone triggers the materialization.
C4_TriggeredOnce ==
    [][\A r \in Reqs :
          (req[r].pc = "get_status" /\ req'[r].pc = "m_check")
              => study.status # "COMPLETED"]_vars

\* C8: a materialization call that finds both artifacts, usable, uploads
\* nothing and deletes nothing: it goes to the branch that only points the
\* Study's keys at them, or returns, and that branch saves nothing but the
\* two keys.
C8_MaterializeIdempotent ==
    [][\A r \in Reqs :
          /\ (req[r].pc = "m_check" /\ ArtifactsUsable /\ req'[r] # req[r])
                => /\ req'[r].pc \in Returned \cup {"m_exists"}
                   /\ blob' = blob /\ study' = study /\ job' = job
          /\ (req[r].pc = "m_exists" /\ req'[r] # req[r])
                => /\ req'[r].pc \in Returned
                   /\ blob' = blob /\ job' = job
                   /\ study' \in {study,
                                  [study EXCEPT !.image_s3_key = "default",
                                                !.mask_s3_key = "default"]}]_vars

\* C8 witness: a materialization call found the artifacts there and is about
\* to record their keys on a study that has none.
C8_KeysToRecord ==
    \E r \in Reqs :
        /\ req[r].pc = "m_exists"
        /\ ArtifactsUsable
        /\ study.image_s3_key = "null"

\* The places inside _create_result_file.
Materializing ==
    {"m_check", "m_exists", "m_delete", "m_upload_image", "m_upload_mask", "m_save"}

submittedVars ==
    <<status, output, queue, rcv, proc, sem, mpc, execs, wpc, cur,
      shutdown_requested, study, job, blob, dev, req, arg, ret>>

UploadTypes == {"zip", "npz", "nifti", "other"}

\* Submission s moves to place p; or its step raises, into the except of
\* line 235.
Goes(s, p) == sub' = [sub EXCEPT ![s].pc = p]
Raises(s) == sub' = [sub EXCEPT ![s].pc = "except", ![s].raised = sub[s].pc]

\* create, lines 77-87: the validated form arrives with its upload_type.
CreateBegin(s) ==
    /\ sub[s].pc = "new"
    /\ \E t \in UploadTypes :
          sub' = [sub EXCEPT ![s].pc = "convert", ![s].upload_type = t]
    /\ UNCHANGED <<studies, jobs, submittedVars>>

\* create, lines 89-159: the upload is saved and converted to the canonical
\* NPZ (convert_zip_to_npz, preprocess_existing_npz after the key check,
\* convert_nifti_to_npz); an upload_type that is none of the three raises
\* ValueError, and so may the conversion or the validation.
CreateConvert(s) ==
    /\ sub[s].pc = "convert"
    /\ \/ sub[s].upload_type # "other" /\ Goes(s, "create_study")
       \/ Raises(s)
    /\ UNCHANGED <<studies, jobs, submittedVars>>

\* create, lines 162-186: Study.objects.create(... status='SUBMITTED').
CreateStudy(s) ==
    /\ sub[s].pc = "create_study"
    /\ \/ /\ studies' = [studies EXCEPT ![s] = [NoRow EXCEPT !.status = "SUBMITTED"]]
          /\ Goes(s, "upload")
       \/ studies' = studies /\ Raises(s)
    /\ UNCHANGED <<jobs, submittedVars>>

\* create, lines 198-205: the source NPZ is stored; upload_file returning False
\* raises.
CreateUpload(s) ==
    /\ sub[s].pc = "upload"
    /\ \/ sub' = [sub EXCEPT ![s].pc = "submit", ![s].stored = TRUE]
       \/ Raises(s)
    /\ UNCHANGED <<studies, jobs, submittedVars>>

\* create, lines 209-211: inference_client.submit_job(npz_path).
CreateSubmit(s) ==
    /\ sub[s].pc = "submit"
    /\ \/ Goes(s, "create_job")
       \/ Raises(s)
    /\ UNCHANGED <<studies, jobs, submittedVars>>

\* CreateJob that creates no Job row.
CreateJobSkipped(s) ==
    /\ sub[s].pc = "create_job"
    /\ \/ jobs' = jobs /\ Goes(s, "save")
       \/ jobs' = jobs /\ Raises(s)
    /\ UNCHANGED <<studies, submittedVars>>

\* create, lines 214-218: Job.objects.create(study=study, ...).
CreateJob(s) ==
    /\ sub[s].pc = "create_job"
    /\ \/ jobs' = [jobs EXCEPT ![s] = jobs[s] + 1] /\ Goes(s, "save")
       \/ jobs' = jobs /\ Raises(s)
    /\ UNCHANGED <<studies, submittedVars>>

\* create, lines 219-221: study.inference_job_id and study.status are set and
\* the study saved.
CreateSave(s) ==
    /\ sub[s].pc = "save"
    /\ \/ /\ studies' = [studies EXCEPT ![s].status = "PROCESSING",
                                         ![s].inference_job_id = TRUE]
          /\ Goes(s, "audit")
       \/ studies' = studies /\ Raises(s)
    /\ UNCHANGED <<jobs, submittedVars>>

\* create, lines 225-233: AuditService.log_study_submit, which raises when
\* the audit row cannot be written; then the response, 201.
CreateAudit(s) ==
    /\ sub[s].pc = "audit"
    /\ \/ Goes(s, "201")
       \/ Raises(s)
    /\ UNCHANGED <<studies, jobs, submittedVars>>

\* Study.mark_failed, models.py lines 161-166, on the study in hand, whose
\* inference_job_id was set at line 219 when the step that raised came after.
mark_failed(s) ==
    [status |-> "FAILED", error_message |-> TRUE,
     inference_job_id |-> sub[s].raised \in {"save", "audit"}]

\* create, lines 235-247: when a Study was created it is marked failed, and
\* a mark_failed that raises is only logged; the response is 400.
CreateExcept(s) ==
    /\ sub[s].pc = "except"
    /\ IF studies[s] # NoRow
          THEN \/ studies' = [studies EXCEPT ![s] = mark_failed(s)]
               \/ studies' = studies
          ELSE studies' = studies
    /\ Goes(s, "400")
    /\ UNCHANGED <<jobs, submittedVars>>

CreateNext ==
    \E s \in Subs :
        \/ CreateBegin(s)
        \/ CreateConvert(s)
        \/ CreateStudy(s)
        \/ CreateUpload(s)
        \/ CreateSubmit(s)
        \/ CreateJob(s)
        \/ CreateSave(s)
        \/ CreateAudit(s)
        \/ CreateExcept(s)

SpecCreate == Init /\ [][CreateNext]_vars

\* The steps of create before and after the Study row exists.
BeforeStudy == {"convert", "create_study"}
AfterStudy == {"upload", "submit", "create_job", "save", "audit"}

\* C16: a submission in which a step raised is answered with an error; when
\* the step came after the Study was created the Study is FAILED with the
\* error message recorded, and when it came before no Study is persisted.
C16_SubmissionErrorsSurface ==
    \A s \in Subs :
        /\ sub[s].raised # "none" => sub[s].pc # "201"
        /\ (sub[s].pc = "400" /\ sub[s].raised \in AfterStudy)
              => (studies[s].status = "FAILED" /\ studies[s].error_message)
        /\ (sub[s].pc = "400" /\ sub[s].raised \in BeforeStudy)
              => studies[s] = NoRow

\* A submission that has been answered.
Answered(s) == sub[s].pc \in {"201", "400"}

\* C17 as stated: once its submission is answered, every persisted Study has
\* exactly one Job.
C17_ExactlyOneJob ==
    \A s \in Subs : (Answered(s) /\ studies[s] # NoRow) => jobs[s] = 1

\* C17: a Study never has two Jobs and a Job always has its Study; a Study
\* whose submission succeeded has exactly one Job, and a Study whose
\* submission failed has one exactly when the failing step came after the
\* Job was created.
C17_AtMostOneJob ==
    \A s \in Subs :
        /\ jobs[s] \in {0, 1}
        /\ jobs[s] = 1 => studies[s] # NoRow
        /\ sub[s].pc = "201" => (studies[s] # NoRow /\ jobs[s] = 1)
        /\ (sub[s].pc = "400" /\ studies[s] # NoRow)
              => (jobs[s] = 1 <=> sub[s].raised \in {"save", "audit"})

\* One submission succeeded and has its Job; another failed while storing the
\* source volume, leaving a FAILED Study with no Job.
C17_FailedWithoutJob ==
    \E s, t \in Subs :
        /\ sub[s].pc = "201" /\ jobs[s] = 1
        /\ sub[t].pc = "400" /\ sub[t].raised = "upload"
        /\ studies[t].status = "FAILED" /\ jobs[t] = 0

\* ============================================ the status mapping, as a function
\* What the inference API may answer as status, spelt out: a word, in lower
\* case, upper case or capitalised, with whitespace before and after it.
MaxPad == 1

Pads == UNION {[1..n -> Whitespace] : n \in 0..MaxPad}

StatusWords ==
    { <<"p", "e", "n", "d", "i", "n", "g">>,
      <<"q", "u", "e", "u", "e", "d">>,
      <<"r", "u", "n", "n", "i", "n", "g">>,
      <<"p", "r", "o", "c", "e", "s", "s", "i", "n", "g">>,
      <<"c", "o", "m", "p", "l", "e", "t", "e", "d">>,
      <<"f", "a", "i", "l", "e", "d">>,
      <<"d", "o", "n", "e">>,
      <<"o", "n", " ", "h", "o", "l", "d">>,
      <<>> }

Cased(word, case) ==
    CASE case = "lower" -> word
      [] case = "upper" -> upper(word)
      [] case = "title" -> IF word = <<>> THEN word
                           ELSE upper(<<Head(word)>>) \o Tail(word)

StatusInputs ==
    [left : Pads, word : StatusWords, case : {"lower", "upper", "title"},
     right : Pads]
        \cup {[left |-> <<>>, word |-> NoneValue, case |-> "lower", right |-> <<>>]}

\* job_status.get('status') for the input a.
StatusValue(a) ==
    IF a.word = NoneValue THEN NoneValue
                          ELSE a.left \o Cased(a.word, a.case) \o a.right

\* status, lines 275-288, applied to one answer of the inference API.
MapStatus ==
    /\ ret = NoCall
    /\ ret' = Value(mapped_status(StatusValue(arg)))
    /\ UNCHANGED <<arg, status, output, queue, rcv, proc, sem, mpc, execs,
                   wpc, cur, shutdown_requested, study, job, blob, dev, req,
                   createVars>>

InitMap ==
    /\ Start
    /\ arg \in StatusInputs
    /\ ret = NoCall

SpecMap == InitMap /\ [][MapStatus]_vars

\* The canonical status each word stands for.
CanonicalStatus ==
    { << <<"p", "e", "n", "d", "i", "n", "g">>, "SUBMITTED" >>,
      << <<"q", "u", "e", "u", "e", "d">>, "QUEUED" >>,
      << <<"r", "u", "n", "n", "i", "n", "g">>, "PROCESSING" >>,
      << <<"p", "r", "o", "c", "e", "s", "s", "i", "n", "g">>, "PROCESSING" >>,
      << <<"c", "o", "m", "p", "l", "e", "t", "e", "d">>, "COMPLETED" >>,
      << <<"f", "a", "i", "l", "e", "d">>, "FAILED" >>,
      << <<"d", "o", "n", "e">>, "DONE" >>,
      << <<"o", "n", " ", "h", "o", "l", "d">>, "ON HOLD" >>,
      << <<>>, "UNKNOWN" >>,
      << NoneValue, "UNKNOWN" >> }

\* C13: whatever the case of the word and the whitespace around it, a word of
\* the table is mapped to its canonical status, another word to itself in
\* upper case, and an empty or missing one to UNKNOWN.
C13_StatusTable ==
    ret # NoCall => \E p \in CanonicalStatus : p[1] = arg.word /\ p[2] = ret[1]

\* C13 witness: a capitalised word of the table between whitespace was mapped.
C13_PaddedCapitalised ==
    /\ arg.left # <<>> /\ arg.right # <<>>
    /\ arg.case = "title"
    /\ arg.word = <<"q", "u", "e", "u", "e", "d">>
    /\ ret = Value("QUEUED")

STATUS_CHOICES == {"SUBMITTED", "QUEUED", "PROCESSING", "COMPLETED", "FAILED"}

\* C14: whatever the inference API answers, the Job's persisted status is one
\* of Job.STATUS_CHOICES.
C14_JobStatusCanonical == job.status \in STATUS_CHOICES

\* The order of the lifecycle.
Rank == [SUBMITTED |-> 1, QUEUED |-> 2, PROCESSING |-> 3, COMPLETED |-> 4]

\* A move from status s to status t that the lifecycle does not permit: back
\* in the order, or out of a terminal status.
Backward(s, t) ==
    \/ s \in DOMAIN Rank /\ t \in DOMAIN Rank /\ Rank[t] < Rank[s]
    \/ s \in TerminalStatuses /\ t # s

\* C15: neither the Job's nor the Study's persisted status moves back in the
\* order SUBMITTED < QUEUED < PROCESSING < COMPLETED, or out of COMPLETED or
\* FAILED.
C15_StatusMonotonic ==
    [][~Backward(job.status, job'.status)
       /\ ~Backward(study.status, study'.status)]_vars

\* ================================= services/dicom_pipeline.py: normalization
\* What a call of a pure function leaves alone.
programVars ==
    <<status, output, queue, rcv, proc, sem, mpc, execs, wpc, cur,
      shutdown_requested, study, job, blob, dev, req, createVars>>

\* The largest size of an axis of an input array.
MaxDim == 2

Dims == 1..MaxDim

\* Array shapes of two to four axes.
Shapes == UNION {[1..n -> Dims] : n \in 2..4}

Min(a, b) == IF a < b THEN a ELSE b

\* np.squeeze on a shape: the axes of size one are dropped.
squeeze(shape) == SelectSeq(shape, LAMBDA d : d # 1)

Reverse(shape) == [i \in 1..Len(shape) |-> shape[Len(shape) + 1 - i]]

Raised == [ok |-> FALSE, shape |-> <<>>, dtype |-> "none", spacing |-> 0 - 1]

\* What a written NPZ holds: the shape and dtype of imgs, and the length of
\* the spacing entry: 0 - 1 when the file has no spacing key, 0 when the
\* entry is the 0-d object array np.savez_compressed makes of None.
Written(shape, spacing) ==
    [ok |-> TRUE, shape |-> shape, dtype |-> "float16", spacing |-> spacing]

\* _coerce_3d_volume, on the shape: <<>> stands for the ValueError.
coerce_3d_volume(shape) ==
    IF Len(shape) = 3 THEN shape
    ELSE IF Len(squeeze(shape)) = 3 THEN squeeze(shape)
    ELSE <<>>

\* _resize_xy: every volume[i] goes through cv2.resize(slice_, target_hw),
\* which keeps a trailing axis of several channels and drops one of a single
\* channel; the results are stacked again.
resize_xy(shape, target_hw) ==
    <<shape[1], target_hw[2], target_hw[1]>>
        \o SelectSeq(SubSeq(shape, 4, Len(shape)), LAMBDA c : c # 1)

\* A volume of Z slices, each named by its index.
Volume(Z) == [i \in 1..Z |-> i - 1]

\* np.linspace(0, Z - 1, T).astype(int): T evenly spaced float64 values,
\* the last one set to Z - 1, truncated; for the sizes used here the
\* truncated values are the integer quotients.
linspace_int(Z, T) ==
    [i \in 1..T |-> IF T = 1 THEN 0 ELSE ((i - 1) * (Z - 1)) \div (T - 1)]

\* _resample_slices
resample_slices(volume, keep_original_slices, target_slices) ==
    IF keep_original_slices THEN volume
    ELSE IF target_slices <= 0 THEN volume
    ELSE IF Len(volume) <= target_slices THEN volume
    ELSE LET idx == linspace_int(Len(volume), target_slices)
         IN  [i \in 1..target_slices |-> volume[idx[i] + 1]]

\* _preprocess: astype(float32), _normalize_intensity (which raises when no
\* value is finite), _resize_xy, _resample_slices, astype(float16).
preprocess(shape, a) ==
    LET resized == resize_xy(shape, a.target_hw)
    IN  <<Len(resample_slices(Volume(resized[1]), a.keep_original_slices,
                              a.target_slices))>> \o Tail(resized)

\* _load_series and convert_zip_to_npz: the pixel arrays are stacked, the
\* spacing is (SliceThickness, PixelSpacing) or None when a tag is missing.
convert_zip_to_npz(a) ==
    IF ~a.finite THEN Raised
    ELSE Written(preprocess(a.shape, a), IF a.spacing THEN 3 ELSE 0)

\* convert_nifti_to_npz: coerced to 3D, transposed to (Z, Y, X); the spacing
\* is the first three header zooms, of which there is one per axis.
convert_nifti_to_npz(a) ==
    LET volume_xyz == coerce_3d_volume(a.shape)
    IN  IF volume_xyz = <<>> \/ ~a.finite THEN Raised
        ELSE Written(preprocess(Reverse(volume_xyz), a), Min(3, Len(a.shape)))

\* preprocess_existing_npz: the spacing entry is copied when the input has
\* one and left out otherwise.
preprocess_existing_npz(a) ==
    LET volume == coerce_3d_volume(a.shape)
    IN  IF volume = <<>> \/ ~a.finite THEN Raised
        ELSE Written(preprocess(volume, a), IF a.spacing THEN 3 ELSE 0 - 1)

\* The settings DICOM_TARGET_HW, DICOM_KEEP_ORIGINAL_SLICES and
\* DICOM_TARGET_SLICES, and the upload: its encoding, the shape of its image
\* array, whether it carries spacing metadata, whether it has a finite value.
\* The pixel arrays of a DICOM series are rows x columns, with a third axis
\* for the samples of a colour image.
NormInputs ==
    {a \in [encoding : {"zip", "nifti", "npz"}, shape : Shapes,
            spacing : BOOLEAN, finite : BOOLEAN,
            target_hw : Dims \X Dims, keep_original_slices : BOOLEAN,
            target_slices : 0..MaxDim] :
        a.encoding = "zip" => Len(a.shape) \in {3, 4}}

ConvertZip ==
    /\ ret = NoCall
    /\ arg.encoding = "zip"
    /\ ret' = Value(convert_zip_to_npz(arg))
    /\ UNCHANGED <<arg, programVars>>

ConvertNifti ==
    /\ ret = NoCall
    /\ arg.encoding = "nifti"
    /\ ret' = Value(convert_nifti_to_npz(arg))
    /\ UNCHANGED <<arg, programVars>>

PreprocessNpz ==
    /\ ret = NoCall
    /\ arg.encoding = "npz"
    /\ ret' = Value(preprocess_existing_npz(arg))
    /\ UNCHANGED <<arg, programVars>>

InitNorm ==
    /\ Start
    /\ arg \in NormInputs
    /\ ret = NoCall

SpecNorm == InitNorm /\ [][ConvertZip \/ ConvertNifti \/ PreprocessNpz]_vars

\* C18: a successful normalization writes imgs with exactly three axes and
\* dtype float16, and a spacing entry of length three.
C18_CanonicalOutput ==
    (ret # NoCall /\ ret[1].ok)
        => /\ Len(ret[1].shape) = 3
           /\ ret[1].dtype = "float16"
           /\ ret[1].spacing = 3

\* ============================ services/dicom_pipeline.py: the slice policy
\* The largest number of slices of a volume, and the largest target.
MaxSlices == 6

SliceInputs ==
    [Z : 1..MaxSlices, keep_original_slices : BOOLEAN,
     target_slices : 0..MaxSlices]

ResampleSlices ==
    /\ ret = NoCall
    /\ ret' = Value(resample_slices(Volume(arg.Z), arg.keep_original_slices,
                                    arg.target_slices))
    /\ UNCHANGED <<arg, programVars>>

InitSlices ==
    /\ Start
    /\ arg \in SliceInputs
    /\ ret = NoCall

SpecSlices == InitSlices /\ [][ResampleSlices]_vars

\* idx is i * (Z - 1) / (T - 1) rounded to a nearest integer.
Nearest(idx, i, Z, T) ==
    LET d == idx * (T - 1) - i * (Z - 1)
    IN  2 * (IF d < 0 THEN 0 - d ELSE d) <= T - 1

\* C19: in preserve mode the volume is returned as it is; with resampling
\* enabled and a target T > 0, a volume of Z > T slices yields exactly T
\* slices, those at the rounded indices i * (Z - 1) / (T - 1), the first
\* being 0, the last Z - 1, in non-decreasing order; a volume of Z <= T
\* slices is returned unchanged.
C19_SlicePolicy ==
    ret # NoCall =>
        LET Z == arg.Z
            T == arg.target_slices
            out == ret[1]
        IN  /\ arg.keep_original_slices => out = Volume(Z)
            /\ (~arg.keep_original_slices /\ T > 0 /\ Z <= T) => out = Volume(Z)
            /\ (~arg.keep_original_slices /\ T > 0 /\ Z > T)
                  => /\ Len(out) = T
                     /\ \A i \in 1..T : Nearest(out[i], i - 1, Z, T)
                     /\ out[1] = 0
                     /\ out[T] = Z - 1
                     /\ \A i \in 1..(T - 1) : out[i] <= out[i + 1]

\* ============================== studies/views.py: the segmentation legend
\* The most voxels of a mask, and its largest label below the palette size.
MaxVoxels == 4
MaxLabel == 2

palette ==
    <<"#e11d48", "#2563eb", "#059669", "#f59e0b", "#7c3aed", "#db2777",
      "#0891b2", "#16a34a", "#dc2626", "#8b5cf6", "#0ea5e9", "#84cc16">>

\* _legend_color_for_label
legend_color_for_label(label_id) == palette[(label_id % Len(palette)) + 1]

\* The labels of a mask: some small ones, one of them negative, and the
\* same ones a palette length higher.
Labels ==
    LET small == (0 - 1)..MaxLabel
    IN  small \cup {l + Len(palette) : l \in small}

\* The flattened integer masks.
Masks == UNION {[1..n -> Labels] : n \in 0..MaxVoxels}

\* np.unique(segs, return_counts=True): the distinct values in ascending
\* order, each with the number of its voxels.
RECURSIVE Ascending(_)
Ascending(S) ==
    IF S = {} THEN <<>>
    ELSE LET m == CHOOSE x \in S : \A y \in S : x <= y
         IN  <<m>> \o Ascending(S \ {m})

unique(segs) ==
    LET vals == Ascending({segs[i] : i \in DOMAIN segs})
    IN  [k \in DOMAIN vals |->
            [val |-> vals[k],
             count |-> Cardinality({i \in DOMAIN segs : segs[i] = vals[k]})]]

\* The legend left in the order of np.unique.
unsorted(legend) == legend

\* legend.sort(key=voxels, reverse=True): stable, so entries of equal count
\* keep their order.
RECURSIVE sort(_)
sort(legend) ==
    IF legend = <<>> THEN <<>>
    ELSE LET n == Len(legend)
             front == sort(SubSeq(legend, 1, n - 1))
             k == Cardinality({i \in DOMAIN front :
                                 front[i].voxels >= legend[n].voxels})
         IN  SubSeq(front, 1, k) \o <<legend[n]>> \o SubSeq(front, k + 1, n - 1)

\* _build_segments_legend_from_arrays for an integer mask: the entries of
\* the loop over np.unique, the background skipped, then sorted.
build_segments_legend_from_arrays(segs, instance_label) ==
    LET u == unique(segs)
        kept == SelectSeq(u, LAMBDA e : e.val # instance_label)
    IN  sort([k \in DOMAIN kept |->
                [id |-> kept[k].val, voxels |-> kept[k].count,
                 color |-> legend_color_for_label(kept[k].val)]])

BuildLegend ==
    /\ ret = NoCall
    /\ ret' = Value(build_segments_legend_from_arrays(arg.segs,
                                                      arg.instance_label))
    /\ UNCHANGED <<arg, programVars>>

InitLegend ==
    /\ Start
    /\ arg \in [segs : Masks, instance_label : {0, 1}]
    /\ ret = NoCall

SpecLegend == InitLegend /\ [][BuildLegend]_vars

\* C20: the legend has exactly one entry for each label of the mask other
\* than the background, with that label's voxel count and the palette colour
\* at index id mod palette size; the entries are in descending order of voxel
\* count and the background label is not among them.
C20_Legend ==
    ret # NoCall =>
        LET segs == arg.segs
            legend == ret[1]
            present == {segs[i] : i \in DOMAIN segs} \ {arg.instance_label}
        IN  /\ {legend[k].id : k \in DOMAIN legend} = present
            /\ Len(legend) = Cardinality(present)
            /\ \A k \in DOMAIN legend :
                  /\ legend[k].voxels =
                        Cardinality({i \in DOMAIN segs : segs[i] = legend[k].id})
                  /\ legend[k].color = palette[(legend[k].id % 12) + 1]
                  /\ legend[k].id # arg.instance_label
            /\ \A k \in 1..(Len(legend) - 1) :
                  legend[k].voxels >= legend[k + 1].voxels

\* A mask holding the background and two labels, the larger label, beyond
\* the palette size, with more voxels: its entry comes first.
C20_LargerFirst ==
    /\ ret # NoCall
    /\ \E i \in DOMAIN arg.segs : arg.segs[i] = arg.instance_label
    /\ Len(ret[1]) = 2
    /\ ret[1][1].id >= 12
    /\ ret[1][1].id > ret[1][2].id
    /\ ret[1][1].voxels > ret[1][2].voxels

\* ============================================ worker properties, continued
\* The statuses from "running" on.
RunningOrLater == {"running", "completed", "failed"}

\* C21: whenever an execution has a compute task (it has passed its launch
\* and not yet its output validation), the job's status has been written as
\* running, or a later status.
C21_RunningBeforeLaunch ==
    /\ \A e \in execs : Launched(e) => status[e.job] \in RunningOrLater
    /\ Launched(cur) => status[cur.job] \in RunningOrLater

\* C21 witness: the first execution of a job waits for its compute task and
\* the status reads running.
C21_TaskRunning ==
    \E e \in execs :
        /\ e.pc = "wait" /\ e.rh = 1
        /\ status[e.job] = "running"

\* The order of the steps of one execution, each named by the place from
\* which it is taken.
StepOrder ==
    <<"validate_input", "running", "launch", "wait", "validate_output",
      "complete", "delete">>

Position(p) == CHOOSE i \in DOMAIN StepOrder : StepOrder[i] = p

IsStep(p) == \E i \in DOMAIN StepOrder : StepOrder[i] = p

\* C22: an execution begins with the validation of its input, and from each
\* step it goes to the next one of the order validate input, mark running,
\* launch, wait, validate output, mark terminal, acknowledge (or to its
\* failure handler).
C22_StepsInOrder ==
    [][/\ (cur = NoMsg /\ cur' # NoMsg) => cur'.pc = "validate_input"
       /\ (IsStep(cur.pc) /\ IsStep(cur'.pc) /\ cur'.pc # cur.pc)
             => Position(cur'.pc) = Position(cur.pc) + 1]_vars

\* Execution e takes a step and is f afterwards.
Becomes(e, f) ==
    /\ e \in execs /\ e \notin execs'
    /\ f \in execs' /\ f \notin execs
    /\ f.job = e.job /\ f.rh = e.rh

\* The compute task of the execution has ended and left no output artifact.
OutputAbsent(e) == e.exit \in {"zero", "nonzero"} /\ ~output[e.job]

\* C23: an execution writes completed only when the output artifact is there
\* after its compute task has ended; when it is absent the execution goes to
\* its failure handler, which writes failed and does not delete the message.
C23_CompletedOnlyWithOutput ==
    [][\A e \in execs : \A f \in execs' :
          Becomes(e, f) =>
            /\ (e.pc = "complete" /\ f.pc = "delete") => output[e.job]
            /\ (e.pc = "validate" /\ OutputAbsent(e)) => f.pc = "except"
            /\ (e.pc = "except" /\ OutputAbsent(e))
                  => /\ status'[e.job] = "failed"
                     /\ queue' = queue]_vars

\* The slot the admission loop holds between its acquire and the start of
\* the thread, or the release after an empty receive.
LoopSlot == IF mpc = "receive" THEN 1 ELSE 0

\* C24: the free slots, the live executions and the slot held by the
\* admission loop always add up to WORKER_CONCURRENCY.
C24_SlotsConserved ==
    sem + Cardinality(execs) + LoopSlot = WORKER_CONCURRENCY

\* C24 witness: one execution's failure handler has raised and its slot is
\* not released yet, the admission loop holds the other slot, none is free.
C24_HandlerRaised ==
    /\ proc = "up"
    /\ \E e \in execs : e.pc = "propagated"
    /\ mpc = "receive"
    /\ sem = 0

\* C26: at most one execution per job is in flight at any time.
C26_OneExecutionPerJob ==
    \A e, f \in execs : e.job = f.job => e = f

\* C27: an execution that has persisted completed never enters its failure
\* handler, whose one statement persists failed.
C27_CompletedNotDemoted ==
    [][/\ \A e \in execs : \A f \in execs' :
            (Becomes(e, f) /\ WroteCompleted(e)) => f.pc # "except"
       /\ WroteCompleted(cur) => cur'.pc # "except"]_vars

\* main.py with a worker process that is neither signalled nor dies, and
\* whose receive_message returns: every started thread gets to run, each of
\* its calls returning or raising.
PoolLiveNext ==
    \/ Producer
    \/ PoolAcquire
    \/ PoolReceiveNone
    \/ \E j \in Jobs : PoolReceive(j)
    \/ PoolThread

SpecPoolLive == Init /\ [][PoolLiveNext]_vars /\ WF_vars(PoolThread)

\* C30: whenever an execution of a job is in flight, a terminal status of
\* that job is eventually persisted.
C30_TerminalEventually ==
    \A j \in Jobs :
        (\E e \in execs : e.job = j) ~> (status[j] \in Terminal)

\* ================================================ API properties, continued
\* Request r's inquiry got an answer from the inference API in this step and
\* mapped it to FAILED (Job.update_status has stored it).
MapsFailed(r) ==
    /\ req[r].pc = "get_status"
    /\ req'[r].pc \notin {"get_status", "500"}
    /\ job'.status = "FAILED"

\* C25: when a status inquiry maps the external status to FAILED and the
\* Study is not FAILED, the Study becomes FAILED with completed_at set, and
\* the inquiry is answered without entering the materialization.
C25_NewlyFailed ==
    [][\A r \in Reqs :
          (MapsFailed(r) /\ study.status # "FAILED")
              => /\ study'.status = "FAILED"
                 /\ study'.completed_at
                 /\ req'[r].pc = "200"]_vars

\* C28: the steps of a materialization before the update of the keys leave
\* the Study as it is; the mask upload is reached only with the image
\* uploaded and the update of the keys only with the mask uploaded after it
\* (or, in the branch that uploads nothing, with both artifacts found in the
\* store); and the update of the keys leaves the status as it is.
C28_KeysAfterUploads ==
    [][\A r \in Reqs :
          req'[r] # req[r] =>
            /\ req[r].pc \in {"m_check", "m_delete", "m_upload_image", "m_upload_mask"}
                  => study' = study
            /\ req'[r].pc = "m_upload_mask"
                  => (req[r].pc = "m_upload_image" /\ blob'.image # "absent")
            /\ req'[r].pc = "m_save"
                  => (req[r].pc = "m_upload_mask" /\ blob'.mask # "absent")
            /\ req'[r].pc = "m_exists" => (req[r].pc = "m_check" /\ BothExist)
            /\ req[r].pc \in {"m_exists", "m_save"}
                  => study'.status = study.status]_vars

\* C28 witness: a materialization has uploaded the image and the mask and is
\* about to record the keys on a Study that has none.
C28_BothUploaded ==
    \E r \in Reqs :
        /\ req[r].pc = "m_save"
        /\ blob = [image |-> "3d", mask |-> "3d"]
        /\ study.image_s3_key = "null" /\ study.mask_s3_key = "null"

\* C29: a status inquiry whose get_status call fails is answered 500 with
\* the Job row, the Study row and the artifacts as they were, and is over: it
\* enters no materialization.
C29_FailedQueryChangesNothing ==
    [][\A r \in Reqs :
          (req[r].pc = "get_status" /\ req'[r].pc = "500")
              => /\ job' = job
                 /\ study' = study
                 /\ blob' = blob
                 /\ req'[r] = [Idle EXCEPT !.pc = "500"]]_vars

\* C29 witness: the one inquiry made for a PROCESSING study was answered 500
\* and the Job and the Study are as the submission left them.
C29_QueryFailed ==
    /\ ApiFresh
    /\ \E r \in Reqs :
          /\ req[r].pc = "500"
          /\ \A q \in Reqs \ {r} : req[q].pc = "idle"

====
